---- MODULE Spec2Model ----
(***************************************************************************)
(* Domain-scoped session cookie manager of the SOAP client                 *)
(* (src/soap-client.js, class SOAPClient; src/index.js, SOAPClientWrapper), *)
(* the simple-soap command with its cookie file (src/test-cookies.js) and  *)
(* the profile store of ConfigManager (src/cli.js).                        *)
(*                                                                         *)
(* Strings are sequences of one-character strings, so that split, trim,    *)
(* startsWith and join are computed as the JavaScript computes them.       *)
(* A JavaScript value that may be null/undefined is a sequence of length   *)
(* at most one: <<>> is null/undefined, <<v>> is the value v.              *)
(***************************************************************************)
EXTENDS Integers, Sequences, FiniteSets, TLC

VARIABLES client, authCookie, wsdlUrl, serviceUrl, sessionCookies,
          currentDomain, lastOp, cookieFile, run, profiles, call, retry

\* the state outside the session object: the cookie file of simple-soap, the
\* last run of simple-soap, the profiles of the configuration file, the
\* executeMethod call that awaits its response, and the connectWithRetry
\* call with its position in the loop
toolVars == <<cookieFile, run, profiles, call, retry>>

\* the session and the report of its last operation
sessionVars == <<client, authCookie, wsdlUrl, serviceUrl, sessionCookies,
                 currentDomain, lastOp>>

vars == <<client, authCookie, wsdlUrl, serviceUrl, sessionCookies,
          currentDomain, lastOp, cookieFile, run, profiles, call, retry>>

-----------------------------------------------------------------------------
(* Bounds of the model *)

\* longest cookie collection a domain may hold in the explored states
MaxCookies == 2
\* longest batch of raw cookie strings handed to one processCookies call
MaxBatch == 2
\* latest instant new Date() returns in the explored states
MaxTime == 2
\* largest maxRetries handed to connectWithRetry (its default is 3)
MaxRetries == 3

-----------------------------------------------------------------------------
(* Optional values *)

None == <<>>
Some(v) == <<v>>
IsSome(o) == o # <<>>
Val(o) == o[1]

-----------------------------------------------------------------------------
(* String helpers: String.prototype.split / startsWith / trim, Array.join *)

RECURSIVE IndexFrom(_, _, _)
\* first index >= i where character ch occurs in s, 0 when there is none
IndexFrom(s, ch, i) ==
  IF i > Len(s) THEN 0
  ELSE IF s[i] = ch THEN i
  ELSE IndexFrom(s, ch, i + 1)

\* s.split(ch)[0]: the text before the first ch (all of s when ch is absent)
SplitFirst(s, ch) ==
  LET k == IndexFrom(s, ch, 1)
  IN  IF k = 0 THEN s ELSE SubSeq(s, 1, k - 1)

RECURSIVE SplitAll(_, _)
\* s.split(ch): every piece, empty pieces included
SplitAll(s, ch) ==
  LET k == IndexFrom(s, ch, 1)
  IN  IF k = 0 THEN <<s>>
      ELSE <<SubSeq(s, 1, k - 1)>> \o SplitAll(SubSeq(s, k + 1, Len(s)), ch)

RECURSIVE TrimLeft(_)
TrimLeft(s) ==
  IF s # <<>> /\ Head(s) = " " THEN TrimLeft(Tail(s)) ELSE s

RECURSIVE TrimRight(_)
TrimRight(s) ==
  IF s # <<>> /\ s[Len(s)] = " " THEN TrimRight(SubSeq(s, 1, Len(s) - 1)) ELSE s

\* s.trim()
Trim(s) == TrimRight(TrimLeft(s))

\* s.startsWith(p)
StartsWith(s, p) == Len(s) >= Len(p) /\ SubSeq(s, 1, Len(p)) = p

RECURSIVE Join(_, _)
\* arr.join(sep)
Join(arr, sep) ==
  IF arr = <<>> THEN <<>>
  ELSE IF Len(arr) = 1 THEN arr[1]
  ELSE arr[1] \o sep \o Join(Tail(arr), sep)

\* the separator "; " of every rendering
Sep == <<";", " ">>

\* arr.filter(p) for the predicate of processCookies
RECURSIVE FilterNotPrefixed(_, _)
FilterNotPrefixed(arr, prefix) ==
  IF arr = <<>> THEN <<>>
  ELSE IF StartsWith(Head(arr), prefix) THEN FilterNotPrefixed(Tail(arr), prefix)
  ELSE <<Head(arr)>> \o FilterNotPrefixed(Tail(arr), prefix)

\* arr.map(f)
RECURSIVE MapTrim(_)
MapTrim(arr) ==
  IF arr = <<>> THEN <<>> ELSE <<Trim(Head(arr))>> \o MapTrim(Tail(arr))

\* url.URL(...).hostname lower-cases the host
Lower(h) == IF h = "A" THEN "a" ELSE IF h = "B" THEN "b" ELSE h

-----------------------------------------------------------------------------
(* Values the operations take their inputs from *)

\* store keys used by the explored calls (lower-case host names)
Domains == {"a", "b"}

\* every key the store is asked for: the host names, and host a as a caller
\* of addCookiesForDomain may write it, in upper case
Keys == Domains \cup {"A"}

Url(h, p) == [valid |-> TRUE, host |-> h, path |-> p]
\* a string new url.URL() rejects
BadUrl == [valid |-> FALSE, host |-> "", path |-> ""]

\* new url.URL(u).hostname
Hostname(u) == Lower(u.host)

\* WSDL URLs handed to connect: one on host a (written in upper case), one
\* on host b, one malformed
WsdlUrls == {Url("A", "/login"), Url("b", "/other"), BadUrl}

\* what the WSDL of the service declares as the address of its first port:
\* no service at all, or an address on host a or b
Locations == {None, Some(Url("a", "/svc")), Some(Url("b", "/svc"))}

\* Set-Cookie header values a response may carry
RawCookieStrings ==
  { <<"a", "=", "1", ";", "p">>,
    <<"a", "=", "2">>,
    <<"b", "=", "1">> }

\* arrays of at most n raw cookie strings
Batches(n) == UNION { [1..k -> RawCookieStrings] : k \in 0..n }

\* the 'set-cookie' entry of a response's header map: missing, or an array
\* (empty, or two cookies of different names, the first with an attribute)
SetCookieValues ==
  { None,
    Some(<<>>),
    Some(<< <<"a", "=", "2", ";", "p">>, <<"b", "=", "1">> >>) }

\* the raw member of a call result: undefined, a response object with a
\* header map, or the response text given as its header lines
NoRaw == [kind |-> "undefined", setCookie |-> None, lines |-> <<>>]
RawObject(sc) == [kind |-> "object", setCookie |-> sc, lines |-> <<>>]
RawText(ls) == [kind |-> "string", setCookie |-> None, lines |-> ls]
Line(h, v) == [header |-> h, value |-> v]

RawResponses ==
  { NoRaw,
    RawObject(None),
    RawObject(Some(<< <<"b", "=", "2">> >>)),
    RawText(<< Line("Content-Type", <<"x">>) >>),
    RawText(<< Line("set-cookie", <<" ", "b", "=", "2", ";", "p">>),
               Line("Content-Type", <<"x">>) >>) }

\* the arrays a response's header map can hold
ResponseBatches == { Val(v) : v \in SetCookieValues \ {None} }

\* Set-Cookie values that exercise the parsing: a name that is the beginning
\* of another name, a value that holds '=', attributes after the first ';'
ParseCookieStrings ==
  { <<"a", "b", "=", "1">>,
    <<"a", "=", "x", "=", "y", ";", "p", "=", "q">>,
    <<"a", "=", "2", ";", "p">>,
    <<"b", "=", "1">> }

\* the arrays of one or two of these values
ParseBatches == UNION { [1..k -> ParseCookieStrings] : k \in 1..MaxBatch }

\* cookie strings handed to addCookiesForDomain by a connected session
SessionCookieStrings ==
  { <<"a", "=", "1", ";", " ", "b", "=", "1">>,
    <<>> }

\* the Cookie entry of the wsdl_headers a caller of connect passes in its
\* options: none, or a cookie of its own
CallerCookies == {None, Some(<<"x", "=", "9">>)}

\* cookie strings handed to addCookiesForDomain when the helper methods are
\* exercised: also a string of white space only
HelperCookieStrings == SessionCookieStrings \cup { <<" ">> }

\* cookie strings handed to addCookiesForDomain when only the store is used
CookieStrings ==
  SessionCookieStrings \cup
  { <<"a", "=", "1", ";", "a", "=", "2">>,
    <<"b", "=", "1">> }

-----------------------------------------------------------------------------
(* The session object (the fields of SOAPClient) as one record *)

This ==
  [ client |-> client, authCookie |-> authCookie, wsdlUrl |-> wsdlUrl,
    serviceUrl |-> serviceUrl, sessionCookies |-> sessionCookies,
    currentDomain |-> currentDomain ]

\* the client soap.createClientAsync returns: no HTTP headers, no response yet
NewClient(loc) ==
  [ location |-> loc, httpCookie |-> None, lastSetCookie |-> None ]

\* client.addHttpHeader('Cookie', value)
AddHttpHeader(c, value) == [c EXCEPT !.httpCookie = Some(value)]

\* delete client.httpHeaders.Cookie
DeleteCookieHeader(c) == [c EXCEPT !.httpCookie = None]

\* domainCookies.join('; ')
Render(domainCookies) == Join(domainCookies, Sep)

\* applyCookiesForDomain that removes the Cookie header of the connection
\* when the domain has no cookies
ApplyCookiesClearing(s, domain) ==
  IF s.client = None \/ domain = "" THEN s
  ELSE LET domainCookies == s.sessionCookies[domain]
       IN  IF IsSome(domainCookies) /\ Len(Val(domainCookies)) > 0
           THEN [s EXCEPT !.client = Some(AddHttpHeader(Val(s.client),
                                                        Render(Val(domainCookies)))),
                          !.authCookie = Some(Render(Val(domainCookies)))]
           ELSE [s EXCEPT !.client = Some(DeleteCookieHeader(Val(s.client)))]

\* applyCookiesForDomain that adds the rendering to the Cookie header the
\* connection already has
ApplyCookiesAccumulating(s, domain) ==
  IF s.client = None \/ domain = "" THEN s
  ELSE LET domainCookies == s.sessionCookies[domain]
       IN  IF IsSome(domainCookies) /\ Len(Val(domainCookies)) > 0
           THEN LET cookieString == Render(Val(domainCookies))
                    header == IF IsSome(Val(s.client).httpCookie)
                              THEN Val(Val(s.client).httpCookie) \o Sep \o cookieString
                              ELSE cookieString
                IN  [s EXCEPT !.client = Some(AddHttpHeader(Val(s.client), header)),
                              !.authCookie = Some(cookieString)]
           ELSE s

\* applyCookiesForDomain(domain); domain "" stands for null/undefined/''
ApplyCookiesForDomain(s, domain) ==
  IF s.client = None \/ domain = "" THEN s
  ELSE LET domainCookies == s.sessionCookies[domain]
       IN  IF IsSome(domainCookies) /\ Len(Val(domainCookies)) > 0
           THEN LET cookieString == Render(Val(domainCookies))
                    cleared == IF IsSome(Val(s.client).httpCookie)
                               THEN DeleteCookieHeader(Val(s.client))
                               ELSE Val(s.client)
                IN  [s EXCEPT !.client = Some(AddHttpHeader(cleared, cookieString)),
                              !.authCookie = Some(cookieString)]
           ELSE s

\* cookie.split(';')[0]
CookiePart(cookie) == SplitFirst(cookie, ";")
\* cookiePart.split('=')[0]
CookieName(cookiePart) == SplitFirst(cookiePart, "=")

RECURSIVE ForEachCookieAppending(_, _, _)
\* a forEach that appends the cookie without removing the entry of its name
ForEachCookieAppending(cookieArray, domainCookies, stored) ==
  IF cookieArray = <<>> THEN stored
  ELSE ForEachCookieAppending(Tail(cookieArray), domainCookies,
                              Some(domainCookies \o <<CookiePart(Head(cookieArray))>>))

RECURSIVE ForEachCookiePrepending(_, _, _)
\* a forEach that puts the cookie in front of the entries it keeps
ForEachCookiePrepending(cookieArray, domainCookies, stored) ==
  IF cookieArray = <<>> THEN stored
  ELSE LET cookiePart == CookiePart(Head(cookieArray))
           name == CookieName(cookiePart)
           filtered == FilterNotPrefixed(domainCookies, name \o <<"=">>)
       IN  ForEachCookiePrepending(Tail(cookieArray), domainCookies,
                                   Some(<<cookiePart>> \o filtered))

RECURSIVE ForEachCookieByPrefix(_, _, _)
\* a forEach that removes every entry that starts with the cookie's name
ForEachCookieByPrefix(cookieArray, domainCookies, stored) ==
  IF cookieArray = <<>> THEN stored
  ELSE LET cookiePart == CookiePart(Head(cookieArray))
           name == CookieName(cookiePart)
           filtered == FilterNotPrefixed(domainCookies, name)
       IN  ForEachCookieByPrefix(Tail(cookieArray), domainCookies,
                                 Some(filtered \o <<cookiePart>>))

RECURSIVE ForEachCookie(_, _, _)
\* the forEach of processCookies: every iteration filters domainCookies, the
\* array read before the loop, and stores the filtered copy plus its cookie
ForEachCookie(cookieArray, domainCookies, stored) ==
  IF cookieArray = <<>> THEN stored
  ELSE LET cookiePart == CookiePart(Head(cookieArray))
           name == CookieName(cookiePart)
           filtered == FilterNotPrefixed(domainCookies, name \o <<"=">>)
       IN  ForEachCookie(Tail(cookieArray), domainCookies,
                         Some(filtered \o <<cookiePart>>))

\* processCookies(cookies, domain) up to and including the apply
ProcessCookies(s, cookies, domain) ==
  LET domainCookies == IF IsSome(s.sessionCookies[domain])
                       THEN Val(s.sessionCookies[domain]) ELSE <<>>
      stored == ForEachCookie(cookies, domainCookies, s.sessionCookies[domain])
  IN  ApplyCookiesForDomain(
        [s EXCEPT !.sessionCookies = [@ EXCEPT ![domain] = stored]], domain)

\* the closing console.log of processCookies reads .join of the stored array:
\* a TypeError when the domain still has no entry
ProcessCookiesThrows(s, cookies, domain) ==
  ProcessCookies(s, cookies, domain).sessionCookies[domain] = None

-----------------------------------------------------------------------------
(* Cookie extraction *)

\* header names compared without regard to case (the i flag of the pattern)
LowerHeader(h) == IF h \in {"Set-Cookie", "SET-COOKIE", "set-cookie"}
                  THEN "set-cookie" ELSE h

RECURSIVE SetCookieMatch(_)
\* raw.match(/Set-Cookie:\s*([^\r\n]+)/gi) followed by the map that strips
\* 'Set-Cookie:' and the white space after it: the values of the Set-Cookie
\* lines of the text that have at least one character, in order
SetCookieMatch(lines) ==
  IF lines = <<>> THEN <<>>
  ELSE LET l == Head(lines)
           v == TrimLeft(l.value)
       IN  IF LowerHeader(l.header) = "set-cookie" /\ v # <<>>
           THEN <<v>> \o SetCookieMatch(Tail(lines))
           ELSE SetCookieMatch(Tail(lines))

\* an extraction that looks at the raw response before the client's headers
ExtractSourceRawFirst(s, raw) ==
  IF s.currentDomain = None THEN "noDomain"
  ELSE IF raw.kind = "object" /\ IsSome(raw.setCookie) THEN "rawHeaders"
  ELSE IF raw.kind = "string" /\ SetCookieMatch(raw.lines) # <<>> THEN "rawText"
  ELSE IF IsSome(s.client) /\ IsSome(Val(s.client).lastSetCookie)
       THEN "clientHeaders"
  ELSE "none"

\* which branch of extractCookiesFromMultipleSources handles the result
ExtractSource(s, raw) ==
  IF s.currentDomain = None THEN "noDomain"
  ELSE IF IsSome(s.client) /\ IsSome(Val(s.client).lastSetCookie)
       THEN "clientHeaders"
  ELSE IF raw.kind = "object" /\ IsSome(raw.setCookie) THEN "rawHeaders"
  ELSE IF raw.kind = "string" /\ SetCookieMatch(raw.lines) # <<>> THEN "rawText"
  ELSE "none"

\* the cookies that branch hands to processCookies
ExtractedCookies(s, raw) ==
  LET src == ExtractSource(s, raw)
  IN  IF src = "clientHeaders" THEN Val(s.client).lastSetCookie
      ELSE IF src = "rawHeaders" THEN raw.setCookie
      ELSE IF src = "rawText" THEN Some(SetCookieMatch(raw.lines))
      ELSE None

\* extractCookiesFromMultipleSources(result, {}) with result.raw = raw; an
\* exception of processCookies is caught and only logged
ExtractCookiesFromMultipleSources(s, raw) ==
  LET found == ExtractedCookies(s, raw)
  IN  IF found = None THEN s
      ELSE ProcessCookies(s, Val(found), Val(s.currentDomain))

\* getSessionCookies that falls back to a domain that has an entry when no
\* domain is current
GetSessionCookiesAnyDomain(s) ==
  LET stored == { d \in Domains : IsSome(s.sessionCookies[d]) }
      target == IF IsSome(s.currentDomain) THEN s.currentDomain
                ELSE IF stored # {} THEN Some(CHOOSE d \in stored : TRUE)
                ELSE None
  IN  IF target = None THEN None
      ELSE LET cookies == s.sessionCookies[Val(target)]
           IN  IF IsSome(cookies) THEN Some(Render(Val(cookies))) ELSE None

\* getSessionCookies()
GetSessionCookies(s) ==
  IF s.currentDomain = None THEN None
  ELSE LET cookies == s.sessionCookies[Val(s.currentDomain)]
       IN  IF IsSome(cookies) THEN Some(Render(Val(cookies))) ELSE None

\* listAllCookies(): the object with one key per domain that has an entry
\* (None: the key is missing)
ListAllCookies(s) == [d \in Keys |-> s.sessionCookies[d]]

-----------------------------------------------------------------------------
(* connect *)

\* the Cookie entry of clientOptions.wsdl_headers: the rendering of the
\* cookies stored for the WSDL host, behind the caller's own wsdl_headers
PreloadCookie(s, url, callerCookie) ==
  LET existingCookies == s.sessionCookies[Hostname(url)]
  IN  IF IsSome(callerCookie) THEN callerCookie
      ELSE IF IsSome(existingCookies) /\ Len(Val(existingCookies)) > 0
      THEN Some(Render(Val(existingCookies)))
      ELSE None

\* how far connect gets: "url" (the WSDL URL does not parse), "construct"
\* (soap.createClientAsync rejects), "resolve" (no first port, or its
\* address does not parse), "ok"
ConnectPhase(url, constructed, loc) ==
  IF ~url.valid THEN "url"
  ELSE IF ~constructed THEN "construct"
  ELSE IF loc = None \/ ~Val(loc).valid THEN "resolve"
  ELSE "ok"

\* connect without the closing applyCookiesForDomain
ConnectResultNoApply(s, url, constructed, loc) ==
  LET phase == ConnectPhase(url, constructed, loc)
      s1 == [s EXCEPT !.wsdlUrl = Some(url)]
      s2 == [s1 EXCEPT !.client = Some(NewClient(loc))]
      s3 == IF loc = None THEN s2 ELSE [s2 EXCEPT !.serviceUrl = loc]
  IN  IF phase \in {"url", "construct"} THEN s1
      ELSE IF phase = "resolve" THEN s3
      ELSE [s3 EXCEPT !.currentDomain = Some(Hostname(Val(loc)))]

\* connect that applies the cookies before it sets the new currentDomain
ConnectResultAppliesPrevious(s, url, constructed, loc) ==
  LET phase == ConnectPhase(url, constructed, loc)
      s1 == [s EXCEPT !.wsdlUrl = Some(url)]
      s2 == [s1 EXCEPT !.client = Some(NewClient(loc))]
      s3 == IF loc = None THEN s2 ELSE [s2 EXCEPT !.serviceUrl = loc]
      s4 == ApplyCookiesForDomain(
              s3, IF IsSome(s3.currentDomain) THEN Val(s3.currentDomain) ELSE "")
  IN  IF phase \in {"url", "construct"} THEN s1
      ELSE IF phase = "resolve" THEN s3
      ELSE [s4 EXCEPT !.currentDomain = Some(Hostname(Val(loc)))]

\* connect that keeps the host of the WSDL URL as currentDomain
ConnectResultWsdlDomain(s, url, constructed, loc) ==
  LET phase == ConnectPhase(url, constructed, loc)
      s1 == [s EXCEPT !.wsdlUrl = Some(url)]
      s2 == [s1 EXCEPT !.client = Some(NewClient(loc))]
      s3 == IF loc = None THEN s2 ELSE [s2 EXCEPT !.serviceUrl = loc]
  IN  IF phase \in {"url", "construct"} THEN s1
      ELSE IF phase = "resolve" THEN s3
      ELSE ApplyCookiesForDomain(
             [s3 EXCEPT !.currentDomain = Some(Hostname(url))], Hostname(url))

\* the session after connect(url, options), the remote side deciding whether
\* the client can be constructed and which address loc its WSDL declares
ConnectResult(s, url, constructed, loc) ==
  LET phase == ConnectPhase(url, constructed, loc)
      s1 == [s EXCEPT !.wsdlUrl = Some(url)]
      s2 == [s1 EXCEPT !.client = Some(NewClient(loc))]
      s3 == IF loc = None THEN s2 ELSE [s2 EXCEPT !.serviceUrl = loc]
  IN  IF phase \in {"url", "construct"} THEN s1
      ELSE IF phase = "resolve" THEN s3
      ELSE LET serviceDomain == Hostname(Val(loc))
           IN  ApplyCookiesForDomain(
                 [s3 EXCEPT !.currentDomain = Some(serviceDomain)], serviceDomain)

\* a report that is also made by the first connect of a session
DomainSwitchOnFirstConnect(s, loc) ==
  s.currentDomain # Some(Hostname(Val(loc)))

\* the 'Switching from domain' report of connect
DomainSwitch(s, loc) ==
  IsSome(s.currentDomain) /\ s.currentDomain # Some(Hostname(Val(loc)))

-----------------------------------------------------------------------------
(* simple-soap: one run of the command (src/test-cookies.js, lines 49-148) *)

\* client.lastResponseHeaders['set-cookie'] after the call of a run: the
\* Set-Cookie header lines of the HTTP response in their order, undefined
\* when the response has none
ScriptSetCookies ==
  { None,
    Some(<< <<"s", "=", "7", ";", "p">> >>),
    Some(<< <<"a", "=", "2", ";", "p">>, <<"b", "=", "1">> >>) }

\* the command line of a run and what its environment answers: whether -c
\* names the cookie file, whether -p and -h are valid JSON, whether the WSDL
\* loads, whether the client has the method, whether the call succeeds, and
\* the set-cookie entry of the response headers
SimpleSoapInputs ==
  [ cookies : BOOLEAN, paramsValid : BOOLEAN, headersValid : BOOLEAN,
    wsdlLoads : BOOLEAN, methodExists : BOOLEAN, callSucceeds : BOOLEAN,
    setCookie : ScriptSetCookies ]

\* before the first run
NoRun == [ran |-> FALSE, exit |-> None, sent |-> None]

\* the run reaches process.exit(1)
SimpleSoapFails(in) ==
  \/ ~in.paramsValid
  \/ ~in.headersValid
  \/ ~in.wsdlLoads
  \/ ~in.methodExists
  \/ ~in.callSucceeds

\* the exit code of the run
SimpleSoapExitCode(in) == IF SimpleSoapFails(in) THEN 1 ELSE 0

\* the Cookie header the run puts on its client: the trimmed content of the
\* cookie file, when there is a client and the content is not empty
SimpleSoapCookieHeader(file, in) ==
  LET cookies == IF in.cookies /\ IsSome(file) THEN Trim(Val(file)) ELSE <<>>
  IN  IF in.paramsValid /\ in.headersValid /\ in.wsdlLoads /\ cookies # <<>>
      THEN Some(cookies) ELSE None

\* cookieStrings.map(cookie => cookie.split(';')[0]).join('; ')
CookieValues(cookieStrings) ==
  Join([i \in 1..Len(cookieStrings) |-> CookiePart(cookieStrings[i])], Sep)

\* a run that saves the Set-Cookie values with their attributes
SimpleSoapCookieFileRaw(file, in) ==
  IF ~SimpleSoapFails(in) /\ in.cookies /\ IsSome(in.setCookie)
  THEN Some(Join(Val(in.setCookie), Sep))
  ELSE file

\* a run that saves the cookies of the response whatever the call's outcome
SimpleSoapCookieFileOnFailure(file, in) ==
  IF in.paramsValid /\ in.headersValid /\ in.wsdlLoads /\ in.methodExists
     /\ in.cookies /\ IsSome(in.setCookie)
  THEN Some(CookieValues(Val(in.setCookie)))
  ELSE file

\* the cookie file after the run (None: there is no such file)
SimpleSoapCookieFile(file, in) ==
  IF ~SimpleSoapFails(in) /\ in.cookies /\ IsSome(in.setCookie)
  THEN Some(CookieValues(Val(in.setCookie)))
  ELSE file

\* one run of simple-soap
SimpleSoap ==
  \E in \in SimpleSoapInputs :
    /\ cookieFile' = SimpleSoapCookieFile(cookieFile, in)
    /\ run' = [ran |-> TRUE, exit |-> Some(SimpleSoapExitCode(in)),
               sent |-> SimpleSoapCookieHeader(cookieFile, in), in |-> in]
    /\ UNCHANGED <<sessionVars, profiles, call, retry>>

-----------------------------------------------------------------------------
(* ConfigManager: the profiles of the configuration file (src/cli.js) *)

ProfileNames == {"p", "q"}

\* the instants new Date() may return
Times == 1..MaxTime

\* an object without any of the fields a profile can have
NoFields ==
  [wsdlUrl |-> None, createdAt |-> None, lastUsed |-> None,
   updatedAt |-> None, importedAt |-> None]

\* { ...a, ...b }: the fields of b over those of a
Spread(a, b) ==
  [f \in DOMAIN NoFields |-> IF IsSome(b[f]) THEN b[f] ELSE a[f]]

\* the profile data the command line saves: { wsdlUrl }
ProfileData == { [NoFields EXCEPT !.wsdlUrl = Some("w")] }

\* the updates handed to updateProfile
ProfileUpdates == { NoFields, [NoFields EXCEPT !.wsdlUrl = Some("v")] }

\* the argument of importProfiles: text that is no JSON (None), or an object
\* that maps names to profile objects: nothing, an empty profile p, or
\* a profile q as exportProfiles writes it
ImportedJson ==
  { None,
    Some([n \in ProfileNames |-> None]),
    Some([n \in ProfileNames |-> IF n = "p" THEN Some(NoFields) ELSE None]),
    Some([n \in ProfileNames |->
            IF n = "q"
            THEN Some([NoFields EXCEPT !.wsdlUrl = Some("w"),
                                       !.createdAt = Some(1),
                                       !.lastUsed = Some(1)])
            ELSE None]) }

\* saveProfile(name, profileData), new Date() returning t1 and then t2
SaveProfileResult(ps, name, profileData, t1, t2) ==
  [ps EXCEPT ![name] =
     Some(Spread(profileData, [NoFields EXCEPT !.createdAt = Some(t1),
                                               !.lastUsed = Some(t2)]))]

\* getProfile(name)
GetProfileResult(ps, name, t) ==
  IF IsSome(ps[name])
  THEN [ps EXCEPT ![name] = Some([Val(ps[name]) EXCEPT !.lastUsed = Some(t)])]
  ELSE ps

\* deleteProfile(name)
DeleteProfileResult(ps, name) == [ps EXCEPT ![name] = None]

\* updateProfile(name, updates)
UpdateProfileResult(ps, name, updates, t) ==
  IF IsSome(ps[name])
  THEN [ps EXCEPT ![name] =
          Some(Spread(Spread(Val(ps[name]), updates),
                      [NoFields EXCEPT !.updatedAt = Some(t)]))]
  ELSE ps

\* importProfiles(profilesJson)
ImportProfilesResult(ps, imported, t) ==
  IF imported = None THEN ps
  ELSE [n \in ProfileNames |->
          IF IsSome(Val(imported)[n])
          THEN Some(Spread(Val(Val(imported)[n]),
                           [NoFields EXCEPT !.importedAt = Some(t)]))
          ELSE ps[n]]

SaveProfile ==
  \E name \in ProfileNames, profileData \in ProfileData, t1, t2 \in Times :
    /\ t1 <= t2
    /\ profiles' = SaveProfileResult(profiles, name, profileData, t1, t2)
    /\ UNCHANGED <<sessionVars, cookieFile, run, call, retry>>

GetProfile ==
  \E name \in ProfileNames, t \in Times :
    /\ profiles' = GetProfileResult(profiles, name, t)
    /\ UNCHANGED <<sessionVars, cookieFile, run, call, retry>>

DeleteProfile ==
  \E name \in ProfileNames :
    /\ profiles' = DeleteProfileResult(profiles, name)
    /\ UNCHANGED <<sessionVars, cookieFile, run, call, retry>>

UpdateProfile ==
  \E name \in ProfileNames, updates \in ProfileUpdates, t \in Times :
    /\ profiles' = UpdateProfileResult(profiles, name, updates, t)
    /\ UNCHANGED <<sessionVars, cookieFile, run, call, retry>>

ImportProfiles ==
  \E imported \in ImportedJson, t \in Times :
    /\ profiles' = ImportProfilesResult(profiles, imported, t)
    /\ UNCHANGED <<sessionVars, cookieFile, run, call, retry>>

NextConfig ==
  \/ SaveProfile
  \/ GetProfile
  \/ DeleteProfile
  \/ UpdateProfile
  \/ ImportProfiles

-----------------------------------------------------------------------------
(* The state machine: one action per public operation of the session *)

\* the operation that produced the current state and what it reported:
\* op its name, ok whether it returned normally (true for connect and
\* authenticate), arg its domain argument, raw the raw member of the call
\* result, note the branch it took, cookies the array it handed to
\* processCookies (None when processCookies was not called), options the
\* Cookie entry of the wsdl_headers the caller of connect passed, sent the
\* Cookie entry of the wsdl_headers connect handed to soap.createClientAsync,
\* result the value a read operation returned, text the cookie string
\* argument of addCookiesForDomain
Op(op, ok, arg, raw, note, cookies) ==
  [op |-> op, ok |-> ok, arg |-> arg, raw |-> raw, note |-> note,
   cookies |-> cookies, options |-> None, sent |-> None, result |-> None,
   text |-> <<>>]

\* no executeMethod call awaits its response.  Of a call: inFlight while
\* the response is awaited, sentTo the host of the endpoint of the client
\* it was issued on, overtaken whether connect has installed another client
\* since, headers and raw the response it got
NoCall ==
  [inFlight |-> FALSE, sentTo |-> "", overtaken |-> FALSE,
   headers |-> None, raw |-> NoRaw]

\* what a connect that got as far as phase does to the call in flight:
\* this.client is another object once soap.createClientAsync has resolved
CallAfterConnect(c, phase) ==
  IF c.inFlight /\ phase \in {"resolve", "ok"}
  THEN [c EXCEPT !.overtaken = TRUE] ELSE c

\* no connectWithRetry call is under way.  Of a call: pos its position
\* ("attempt": about to call connect, "wait": in the back-off timer, "done":
\* returned), url and maxRetries its arguments, i the loop counter,
\* attempts the number of connect calls made, waits the delays waited in
\* seconds, lastError the variable of that name, result what it returned
NoRetry ==
  [pos |-> "done", url |-> BadUrl, maxRetries |-> 0, i |-> 0, attempts |-> 0,
   waits |-> <<>>, lastError |-> None, result |-> None]

\* the assignment of the fields of session s to the variables
Commit(s) ==
  /\ client' = s.client
  /\ authCookie' = s.authCookie
  /\ wsdlUrl' = s.wsdlUrl
  /\ serviceUrl' = s.serviceUrl
  /\ sessionCookies' = s.sessionCookies
  /\ currentDomain' = s.currentDomain

\* no collection of s is longer than the model explores
WithinBounds(s) ==
  \A d \in Domains :
    IsSome(s.sessionCookies[d]) => Len(Val(s.sessionCookies[d])) <= MaxCookies

\* constructor
Init ==
  /\ client = None
  /\ authCookie = None
  /\ wsdlUrl = None
  /\ serviceUrl = None
  /\ sessionCookies = [d \in Keys |-> None]
  /\ currentDomain = None
  /\ lastOp = Op("constructor", TRUE, "", NoRaw, "", None)
  /\ cookieFile = None
  /\ run = NoRun
  /\ profiles = [n \in ProfileNames |-> None]
  /\ call = NoCall
  /\ retry = NoRetry

\* what is recorded of a connect call on session s
ConnectReport(s, url, constructed, loc, callerCookie) ==
  LET phase == ConnectPhase(url, constructed, loc)
  IN  [Op("connect", phase = "ok", "", NoRaw,
          IF phase = "ok" /\ DomainSwitch(s, loc)
          THEN "switch" ELSE phase, None)
       EXCEPT !.sent = IF url.valid
                       THEN PreloadCookie(s, url, callerCookie)
                       ELSE None,
              !.options = callerCookie]

\* connect(wsdlUrl, options), options.wsdl_headers.Cookie being callerCookie
Connect ==
  \E url \in WsdlUrls, constructed \in BOOLEAN, loc \in Locations,
     callerCookie \in CallerCookies :
    LET phase == ConnectPhase(url, constructed, loc)
    IN  /\ ~url.valid => (~constructed /\ callerCookie = None)
        /\ ~constructed => loc = None
        /\ UNCHANGED <<cookieFile, run, profiles, retry>>
        /\ call' = CallAfterConnect(call, phase)
        /\ Commit(ConnectResult(This, url, constructed, loc))
        /\ lastOp' = ConnectReport(This, url, constructed, loc, callerCookie)

\* the value authenticateWithCookie returns for a response whose set-cookie
\* header is setCookie; a failed request returns null
AuthenticateWithCookie(posted, setCookie) ==
  IF posted /\ IsSome(setCookie) /\ Len(Val(setCookie)) > 0
  THEN Some(Join([i \in 1..Len(Val(setCookie)) |-> CookiePart(Val(setCookie)[i])], Sep))
  ELSE None

\* the session after authenticate(username, password, authMethod); the
\* security object that 'basic' and 'wsse' hand to the RPC client is state of
\* the RPC library, not of the session
AuthenticateResult(s, authMethod, posted, setCookie) ==
  IF authMethod \in {"basic", "wsse"}
  THEN s
  ELSE IF authMethod = "cookie"
  THEN LET cookie == AuthenticateWithCookie(posted, setCookie)
       IN  IF IsSome(cookie) /\ Val(cookie) # <<>>
           THEN IF s.client = None THEN [s EXCEPT !.authCookie = cookie]
                ELSE [s EXCEPT !.authCookie = cookie,
                               !.client = Some(AddHttpHeader(Val(s.client), Val(cookie)))]
           ELSE s
  ELSE s

\* whether authenticate returns true
AuthenticateOk(s, authMethod, posted, setCookie) ==
  /\ s.client # None
  /\ \/ authMethod \in {"basic", "wsse"}
     \/ /\ authMethod = "cookie"
        /\ IsSome(AuthenticateWithCookie(posted, setCookie))
        /\ Val(AuthenticateWithCookie(posted, setCookie)) # <<>>

\* authenticate(username, password, authMethod)
Authenticate ==
  \E authMethod \in {"basic", "cookie", "other"}, posted \in BOOLEAN,
     setCookie \in {None, Some(<< <<"s", "=", "7", ";", "p">> >>)} :
    /\ (authMethod # "cookie") => (posted /\ setCookie = None)
    /\ UNCHANGED toolVars
    /\ Commit(AuthenticateResult(This, authMethod, posted, setCookie))
    /\ lastOp' = Op("authenticate", AuthenticateOk(This, authMethod, posted, setCookie),
                    "", NoRaw, authMethod, None)

\* executeMethod that calls the service and searches the result before it
\* looks whether there is a connection
ExecuteMethodResultUnguarded(s, succeeded, headers, raw) ==
  LET s1 == IF headers = <<>> \/ s.client = None THEN s
            ELSE [s EXCEPT !.client =
                    Some([Val(s.client) EXCEPT !.lastSetCookie = Val(headers)])]
  IN  IF succeeded THEN ExtractCookiesFromMultipleSources(s1, raw) ELSE s1

\* executeMethod that searches for cookies also when the call failed
ExecuteMethodResultExtractsOnError(s, succeeded, headers, raw) ==
  IF s.client = None THEN s
  ELSE LET s1 == IF headers = <<>> THEN s
                 ELSE [s EXCEPT !.client =
                         Some([Val(s.client) EXCEPT !.lastSetCookie = Val(headers)])]
       IN  ExtractCookiesFromMultipleSources(s1, raw)

\* the session after executeMethod(methodName, parameters): the RPC layer
\* records the response's headers (headers = <<>> when no response came),
\* and a successful call has its result searched for cookies
ExecuteMethodResult(s, succeeded, headers, raw) ==
  IF s.client = None THEN s
  ELSE LET s1 == IF headers = <<>> THEN s
                 ELSE [s EXCEPT !.client =
                         Some([Val(s.client) EXCEPT !.lastSetCookie = Val(headers)])]
       IN  IF succeeded THEN ExtractCookiesFromMultipleSources(s1, raw) ELSE s1

\* executeMethod that lets an exception of the cookie extraction escape
ExecuteMethodReturnsUncaught(s, succeeded, headers, raw) ==
  LET s1 == ExecuteMethodResult(s, FALSE, headers, raw)
      found == ExtractedCookies(s1, raw)
  IN  /\ s.client # None
      /\ succeeded
      /\ IsSome(found) =>
           ~ProcessCookiesThrows(s1, Val(found), Val(s1.currentDomain))

\* whether executeMethod returns the result of the call: there is a
\* connection and the call succeeded (what the cookie extraction throws is
\* caught and logged inside it)
ExecuteMethodReturns(s, succeeded, headers, raw) ==
  s.client # None /\ succeeded

\* executeMethod(methodName, parameters); succeeded, headers and raw are what
\* the service would answer, which a session without connection never asks
ExecuteMethod ==
  \E succeeded \in BOOLEAN, headers \in {None} \cup {Some(v) : v \in SetCookieValues},
     raw \in RawResponses :
    LET r == ExecuteMethodResult(This, succeeded, headers, raw)
        s1 == ExecuteMethodResult(This, FALSE, headers, raw)
    IN  /\ succeeded => headers # None
        /\ ~succeeded => raw = NoRaw
        /\ WithinBounds(r)
        /\ UNCHANGED toolVars
        /\ Commit(r)
        /\ lastOp' = Op("executeMethod",
                        ExecuteMethodReturns(This, succeeded, headers, raw), "",
                        IF client = None THEN NoRaw ELSE raw,
                        IF client = None THEN "notConnected"
                        ELSE IF ~succeeded THEN "rpcError"
                        ELSE ExtractSource(s1, raw),
                        IF succeeded /\ client # None
                        THEN ExtractedCookies(s1, raw) ELSE None)

\* the session when the response of a call arrives that was issued before
\* the await: the RPC layer records the headers on the client the call was
\* issued on, which is this.client unless the call was overtaken, and the
\* search for cookies reads this.client and this.currentDomain as they are
\* now
ExecuteMethodCompletion(s, overtaken, succeeded, headers, raw) ==
  IF ~overtaken THEN ExecuteMethodResult(s, succeeded, headers, raw)
  ELSE IF succeeded THEN ExtractCookiesFromMultipleSources(s, raw)
  ELSE s

\* executeMethod up to its await: the call is issued on this.client
ExecuteMethodSend ==
  /\ ~call.inFlight
  /\ IsSome(client)
  /\ IsSome(Val(client).location) /\ Val(Val(client).location).valid
  /\ call' = [NoCall EXCEPT !.inFlight = TRUE,
                            !.sentTo = Hostname(Val(Val(client).location))]
  /\ UNCHANGED <<sessionVars, cookieFile, run, profiles, retry>>

\* executeMethod from its await on: the response of the call in flight
ExecuteMethodComplete ==
  \E succeeded \in BOOLEAN, headers \in {None} \cup {Some(v) : v \in SetCookieValues},
     raw \in RawResponses :
    LET r == ExecuteMethodCompletion(This, call.overtaken, succeeded, headers, raw)
        s1 == ExecuteMethodCompletion(This, call.overtaken, FALSE, headers, raw)
    IN  /\ call.inFlight
        /\ succeeded => headers # None
        /\ ~succeeded => raw = NoRaw
        /\ WithinBounds(r)
        /\ call' = [call EXCEPT !.inFlight = FALSE, !.headers = headers,
                                !.raw = raw]
        /\ UNCHANGED <<cookieFile, run, profiles, retry>>
        /\ Commit(r)
        /\ lastOp' = Op("executeMethod", succeeded, "", raw,
                        IF ~succeeded THEN "rpcError" ELSE ExtractSource(s1, raw),
                        IF succeeded THEN ExtractedCookies(s1, raw) ELSE None)

\* extractAndStoreCookies(rawResponse)
ExtractAndStoreCookies ==
  \E raw \in RawResponses :
    LET r == ExtractCookiesFromMultipleSources(This, raw)
    IN  /\ WithinBounds(r)
        /\ UNCHANGED toolVars
        /\ Commit(r)
        /\ lastOp' = Op("extractAndStoreCookies", TRUE, "", raw,
                        ExtractSource(This, raw), ExtractedCookies(This, raw))

\* processCookies(cookies, domain)
ProcessCookiesCall(batches) ==
  \E cookies \in batches, domain \in Domains :
    LET r == ProcessCookies(This, cookies, domain)
    IN  /\ WithinBounds(r)
        /\ UNCHANGED toolVars
        /\ Commit(r)
        /\ lastOp' = Op("processCookies", ~ProcessCookiesThrows(This, cookies, domain),
                        domain, NoRaw, "", Some(cookies))

\* applyCookiesForDomain(domain)
ApplyCookiesCall ==
  \E domain \in Domains \cup {""} :
    /\ UNCHANGED toolVars
    /\ Commit(ApplyCookiesForDomain(This, domain))
    /\ lastOp' = Op("applyCookiesForDomain", TRUE, domain, NoRaw,
                    IF client = None \/ domain = "" THEN "cannot"
                    ELSE IF ApplyCookiesForDomain(This, domain) = This
                              /\ sessionCookies[domain] = None
                    THEN "noCookies" ELSE "applied", None)

\* clearSessionCookies that also takes the Cookie header off the connection
ClearSessionCookiesDroppingHeader(s, domain) ==
  LET targetDomain == IF domain # "" THEN Some(domain) ELSE s.currentDomain
  IN  IF IsSome(targetDomain)
      THEN [s EXCEPT !.sessionCookies = [@ EXCEPT ![Val(targetDomain)] = None],
                     !.client = IF IsSome(s.client)
                                THEN Some(DeleteCookieHeader(Val(s.client)))
                                ELSE None]
      ELSE s

\* the session after clearSessionCookies(domain); "" is the default null
ClearSessionCookiesResult(s, domain) ==
  LET targetDomain == IF domain # "" THEN Some(domain) ELSE s.currentDomain
  IN  IF IsSome(targetDomain)
      THEN [s EXCEPT !.sessionCookies = [@ EXCEPT ![Val(targetDomain)] = None]]
      ELSE s

\* clearSessionCookies(domain)
ClearSessionCookies ==
  \E domain \in Domains \cup {""} :
    /\ UNCHANGED toolVars
    /\ Commit(ClearSessionCookiesResult(This, domain))
    /\ lastOp' = Op("clearSessionCookies", TRUE, domain, NoRaw, "", None)

\* addCookiesForDomain that stores the pieces of the string untrimmed
AddCookiesForDomainNoTrim(s, domain, cookieString) ==
  IF domain = "" \/ cookieString = <<>> THEN s
  ELSE LET cookies == SplitAll(cookieString, ";")
           s1 == [s EXCEPT !.sessionCookies = [@ EXCEPT ![domain] = Some(cookies)]]
       IN  IF s1.currentDomain = Some(domain) /\ s1.client # None
           THEN ApplyCookiesForDomain(s1, domain)
           ELSE s1

\* addCookiesForDomain that only requires the domain
AddCookiesForDomainNoStringCheck(s, domain, cookieString) ==
  IF domain = "" THEN s
  ELSE LET cookies == MapTrim(SplitAll(cookieString, ";"))
           s1 == [s EXCEPT !.sessionCookies = [@ EXCEPT ![domain] = Some(cookies)]]
       IN  IF s1.currentDomain = Some(domain) /\ s1.client # None
           THEN ApplyCookiesForDomain(s1, domain)
           ELSE s1

\* addCookiesForDomain that applies the cookies to the connection whatever
\* the current domain is
AddCookiesForDomainAlwaysApplying(s, domain, cookieString) ==
  IF domain = "" \/ cookieString = <<>> THEN s
  ELSE LET cookies == MapTrim(SplitAll(cookieString, ";"))
           s1 == [s EXCEPT !.sessionCookies = [@ EXCEPT ![domain] = Some(cookies)]]
       IN  IF s1.client # None
           THEN ApplyCookiesForDomain(s1, domain)
           ELSE s1

\* the session after addCookiesForDomain(domain, cookieString)
AddCookiesForDomainResult(s, domain, cookieString) ==
  IF domain = "" \/ cookieString = <<>> THEN s
  ELSE LET cookies == MapTrim(SplitAll(cookieString, ";"))
           s1 == [s EXCEPT !.sessionCookies = [@ EXCEPT ![domain] = Some(cookies)]]
       IN  IF s1.currentDomain = Some(domain) /\ s1.client # None
           THEN ApplyCookiesForDomain(s1, domain)
           ELSE s1

\* addCookiesForDomain(domain, cookieString) with the domain taken from
\* domains and the cookie string from strings
AddCookiesForDomainIn(domains, strings) ==
  \E domain \in domains, cookieString \in strings :
    /\ UNCHANGED toolVars
    /\ Commit(AddCookiesForDomainResult(This, domain, cookieString))
    /\ lastOp' = [Op("addCookiesForDomain", domain # "" /\ cookieString # <<>>,
                     domain, NoRaw, "", None)
                  EXCEPT !.text = cookieString]

\* addCookiesForDomain(domain, cookieString) for a lower-case host name or ''
AddCookiesForDomain(strings) == AddCookiesForDomainIn(Domains \cup {""}, strings)

\* a disconnect that also empties the cookie store
DisconnectResultClearing(s) ==
  [s EXCEPT !.client = None, !.authCookie = None, !.serviceUrl = None,
            !.wsdlUrl = None, !.sessionCookies = [d \in Keys |-> None]]

\* a disconnect that also forgets the current domain
DisconnectResultForgettingDomain(s) ==
  [s EXCEPT !.client = None, !.authCookie = None, !.serviceUrl = None,
            !.wsdlUrl = None, !.currentDomain = None]

\* the session after the wrapper's disconnect()
DisconnectResult(s) ==
  [s EXCEPT !.client = None, !.authCookie = None, !.serviceUrl = None,
            !.wsdlUrl = None]

\* SOAPClientWrapper.disconnect()
Disconnect ==
  /\ UNCHANGED toolVars
  /\ Commit(DisconnectResult(This))
  /\ lastOp' = Op("disconnect", TRUE, "", NoRaw, "", None)

\* getSessionCookies()
GetSessionCookiesCall ==
  /\ UNCHANGED toolVars
  /\ Commit(This)
  /\ lastOp' = [Op("getSessionCookies", TRUE, "", NoRaw, "", None)
                EXCEPT !.result = GetSessionCookies(This)]

\* listAllCookies()
ListAllCookiesCall ==
  /\ UNCHANGED toolVars
  /\ Commit(This)
  /\ lastOp' = [Op("listAllCookies", TRUE, "", NoRaw, "", None)
                EXCEPT !.result = ListAllCookies(This)]

Next ==
  \/ Connect
  \/ Authenticate
  \/ ExecuteMethod
  \/ ClearSessionCookies
  \/ AddCookiesForDomain(SessionCookieStrings)
  \/ GetSessionCookiesCall
  \/ ListAllCookiesCall
  \/ Disconnect

Spec == Init /\ [][Next]_vars

\* the cookie store alone: merge, bulk replace and delete on a session that
\* was never connected, with every batch of raw cookie strings
NextStore ==
  \/ ProcessCookiesCall(Batches(MaxBatch))
  \/ AddCookiesForDomainIn(Keys \cup {""}, CookieStrings)
  \/ ClearSessionCookies
  \/ GetSessionCookiesCall
  \/ ListAllCookiesCall

SpecStore == Init /\ [][NextStore]_vars

\* the helper methods of SOAPClient called directly on a session that
\* connects and has cookies added and cleared
NextHelpers ==
  \/ Connect
  \/ ExtractAndStoreCookies
  \/ ProcessCookiesCall(ResponseBatches)
  \/ ApplyCookiesCall
  \/ ClearSessionCookies
  \/ AddCookiesForDomain(HelperCookieStrings)
  \/ GetSessionCookiesCall

SpecHelpers == Init /\ [][NextHelpers]_vars

\* processCookies and clearSessionCookies on the store, with the Set-Cookie
\* values that exercise the parsing
NextParse ==
  \/ ProcessCookiesCall(ParseBatches)
  \/ ClearSessionCookies

SpecParse == Init /\ [][NextParse]_vars

\* a session whose executeMethod calls await their responses while connect
\* may run
NextAsync ==
  \/ Connect
  \/ ExecuteMethodSend
  \/ ExecuteMethodComplete

SpecAsync == Init /\ [][NextAsync]_vars

\* the cookie file before the first run of simple-soap: missing, or written
\* by hand
InitSimpleSoap ==
  /\ client = None
  /\ authCookie = None
  /\ wsdlUrl = None
  /\ serviceUrl = None
  /\ sessionCookies = [d \in Keys |-> None]
  /\ currentDomain = None
  /\ lastOp = Op("constructor", TRUE, "", NoRaw, "", None)
  /\ cookieFile \in {None, Some(<<" ", "a", "=", "1", " ">>)}
  /\ run = NoRun
  /\ profiles = [n \in ProfileNames |-> None]
  /\ call = NoCall
  /\ retry = NoRetry

SpecSimpleSoap == InitSimpleSoap /\ [][SimpleSoap]_vars

\* the profile store of ConfigManager, starting without configuration file
SpecConfig == Init /\ [][NextConfig]_vars

-----------------------------------------------------------------------------
(* The responses of SOAPClientWrapper (src/index.js) *)

\* what the wrapper's connect returns when SOAPClient.connect returned
\* success: connect catches every exception itself, so the wrapper's own
\* catch block, the only place that sets error, is never entered
ConnectResponse(success) == [success |-> success, error |-> None]

\* what the wrapper's authenticate returns; SOAPClient.authenticate catches
\* every exception itself as well
AuthenticateResponse(success) == [success |-> success, error |-> None]

\* what the wrapper's executeMethod returns: SOAPClient.executeMethod throws
\* when there is no connection and when the call fails, and the wrapper
\* turns the exception into success=false with its message
ExecuteMethodResponse(returned, message) ==
  IF returned THEN [success |-> TRUE, error |-> None]
  ELSE [success |-> FALSE, error |-> Some(message)]

\* the response of the wrapper to the last operation
WrapperResponse ==
  IF lastOp.op = "connect" THEN ConnectResponse(lastOp.ok)
  ELSE IF lastOp.op = "authenticate" THEN AuthenticateResponse(lastOp.ok)
  ELSE ExecuteMethodResponse(lastOp.ok, lastOp.note)

\* the response of connectWithRetry when the loop has ended: the message
\* 'Failed after ${maxRetries} attempts. Last error: ${lastError}'
ConnectWithRetryFailure(maxRetries, lastError) ==
  [success |-> FALSE,
   error |-> Some([attempts |-> maxRetries, lastError |-> lastError])]

\* getConnectionStatus(): !! of a string is false for the empty string
GetConnectionStatus(s) ==
  [ connected |-> s.client # None,
    authenticated |-> IsSome(s.authCookie) /\ Val(s.authCookie) # <<>>,
    serviceUrl |-> s.serviceUrl,
    wsdlUrl |-> s.wsdlUrl,
    currentDomain |-> s.currentDomain,
    sessionCookies |-> GetSessionCookies(s) ]

-----------------------------------------------------------------------------
(* executeWithValidation (src/index.js) *)

\* the method names handed to executeWithValidation: "m" is the method the
\* binding of a service's port declares, "nope" is declared nowhere
MethodNames == {"m", "nope"}

\* SOAPClient.getMethodInfo(methodName): null without a client, and null
\* unless a port of a service of the WSDL has the method in its binding
GetMethodInfo(s, methodName) ==
  IF s.client = None THEN None
  ELSE IF IsSome(Val(s.client).location) /\ methodName = "m"
  THEN Some(methodName)
  ELSE None

\* the wrapper's getMethodInfo(methodName): success is true whenever
\* SOAPClient.getMethodInfo returns, whatever it returns
GetMethodInfoResponse(s, methodName) ==
  [success |-> TRUE, info |-> GetMethodInfo(s, methodName)]

\* how executeWithValidation(methodName, parameters) ends on session s:
\* "notFound" (the validation refuses), "notConnected" (executeMethod throws
\* without a client), "notAFunction" (this.client[methodName] is undefined
\* and calling it throws), "called" (the RPC call is made)
ValidationOutcome(s, methodName) ==
  IF ~GetMethodInfoResponse(s, methodName).success THEN "notFound"
  ELSE IF s.client = None THEN "notConnected"
  ELSE IF GetMethodInfo(s, methodName) = None THEN "notAFunction"
  ELSE "called"

\* executeWithValidation(methodName, parameters)
ExecuteWithValidation ==
  \E methodName \in MethodNames, succeeded \in BOOLEAN,
     headers \in {None} \cup {Some(v) : v \in SetCookieValues},
     raw \in RawResponses :
    LET outcome == ValidationOutcome(This, methodName)
        r == IF outcome = "called"
             THEN ExecuteMethodResult(This, succeeded, headers, raw) ELSE This
        s1 == ExecuteMethodResult(This, FALSE, headers, raw)
    IN  /\ succeeded => headers # None
        /\ ~succeeded => raw = NoRaw
        /\ outcome # "called" => (~succeeded /\ headers = None)
        /\ WithinBounds(r)
        /\ UNCHANGED toolVars
        /\ Commit(r)
        /\ lastOp' = Op("executeWithValidation",
                        outcome = "called" /\ succeeded, methodName, raw,
                        IF outcome # "called" THEN outcome
                        ELSE IF ~succeeded THEN "rpcError"
                        ELSE ExtractSource(s1, raw),
                        IF outcome = "called" /\ succeeded
                        THEN ExtractedCookies(s1, raw) ELSE None)

\* a session that connects, disconnects and calls methods with validation
NextValidation ==
  \/ Connect
  \/ ExecuteWithValidation
  \/ Disconnect

SpecValidation == Init /\ [][NextValidation]_vars

-----------------------------------------------------------------------------
(* connectWithRetry (src/index.js): the loop, one step per await *)

\* Math.pow(2, i) * 1000 milliseconds, in seconds
RetryDelay(i) == 2^i

\* a loop that waits after every failed attempt
WaitsAfterEveryAttempt(i, maxRetries) == TRUE

\* whether the loop waits after the failed attempt i
WaitsAfter(i, maxRetries) == i < maxRetries - 1

\* the end of iteration i: i++, then the loop condition, then the return
\* behind the loop
RetryNext(r) ==
  IF r.i + 1 < r.maxRetries
  THEN [r EXCEPT !.i = r.i + 1, !.pos = "attempt"]
  ELSE [r EXCEPT !.i = r.i + 1, !.pos = "done",
                 !.result = Some(ConnectWithRetryFailure(r.maxRetries, r.lastError))]

\* connectWithRetry(wsdlUrl, {}, maxRetries) up to its first await
ConnectWithRetryStart ==
  \E url \in WsdlUrls, maxRetries \in 0..MaxRetries :
    /\ retry.pos = "done"
    /\ retry' = IF 0 < maxRetries
                THEN [NoRetry EXCEPT !.pos = "attempt", !.url = url,
                                     !.maxRetries = maxRetries]
                ELSE [NoRetry EXCEPT !.url = url,
                                     !.result = Some(ConnectWithRetryFailure(
                                                       maxRetries, None))]
    /\ UNCHANGED <<sessionVars, cookieFile, run, profiles, call>>

\* one await this.connect(wsdlUrl, options) of the loop and what follows it
\* up to the next await or the return
ConnectWithRetryAttempt ==
  \E constructed \in BOOLEAN, loc \in Locations :
    LET url == retry.url
        phase == ConnectPhase(url, constructed, loc)
        result == ConnectResponse(phase = "ok")
        failed == [retry EXCEPT !.attempts = retry.attempts + 1,
                                !.lastError = result.error]
    IN  /\ retry.pos = "attempt"
        /\ ~url.valid => ~constructed
        /\ ~constructed => loc = None
        /\ Commit(ConnectResult(This, url, constructed, loc))
        /\ lastOp' = ConnectReport(This, url, constructed, loc, None)
        /\ call' = CallAfterConnect(call, phase)
        /\ retry' =
             IF result.success
             THEN [retry EXCEPT !.attempts = retry.attempts + 1, !.pos = "done",
                                !.result = Some(result)]
             ELSE IF WaitsAfter(retry.i, retry.maxRetries)
             THEN [failed EXCEPT !.pos = "wait",
                                 !.waits = Append(retry.waits, RetryDelay(retry.i))]
             ELSE RetryNext(failed)
        /\ UNCHANGED <<cookieFile, run, profiles>>

\* the timer of the back-off fires
ConnectWithRetryWake ==
  /\ retry.pos = "wait"
  /\ retry' = RetryNext(retry)
  /\ UNCHANGED <<sessionVars, cookieFile, run, profiles, call>>

NextRetry ==
  \/ ConnectWithRetryStart
  \/ ConnectWithRetryAttempt
  \/ ConnectWithRetryWake

\* connectWithRetry calls one after the other; every connect settles and
\* every timer fires
SpecRetry ==
  /\ Init /\ [][NextRetry]_vars
  /\ WF_vars(ConnectWithRetryAttempt)
  /\ WF_vars(ConnectWithRetryWake)

-----------------------------------------------------------------------------
(* Helpers of the properties *)

\* the session after the step
ThisNext ==
  [ client |-> client', authCookie |-> authCookie', wsdlUrl |-> wsdlUrl',
    serviceUrl |-> serviceUrl', sessionCookies |-> sessionCookies',
    currentDomain |-> currentDomain' ]

\* the entries stored for domain d (none when d has no entry)
Entries(d) == IF IsSome(sessionCookies[d]) THEN Val(sessionCookies[d]) ELSE <<>>

\* the store holds at least one cookie for domain d
HasCookies(d) == Entries(d) # <<>>

\* the Cookie header of the active connection (None without a connection)
CookieHeader == IF IsSome(client) THEN Val(client).httpCookie ELSE None

\* the indices of the entries of collection coll named n
Named(coll, n) == { i \in 1..Len(coll) : CookieName(coll[i]) = n }

\* the last cookie of batch c that has the name of c[i]
LastOfName(c, i) ==
  LET n == CookieName(CookiePart(c[i]))
      k == CHOOSE j \in 1..Len(c) :
             /\ CookieName(CookiePart(c[j])) = n
             /\ \A m \in (j + 1)..Len(c) : CookieName(CookiePart(c[m])) # n
  IN  CookiePart(c[k])

-----------------------------------------------------------------------------
(* C1: after processCookies(c, d) the collection of d holds exactly one      *)
(* entry for each distinct cookie name of the batch c, with the value of    *)
(* the name's last occurrence in c.  The code filters the array it read     *)
(* before the loop in every iteration, so of a batch only the last cookie   *)
(* is stored.                                                               *)
C1_MergeKeepsEveryName ==
  (lastOp.op = "processCookies" /\ lastOp.ok) =>
    LET c == Val(lastOp.cookies)
        coll == Entries(lastOp.arg)
    IN  \A i \in 1..Len(c) :
          /\ Cardinality(Named(coll, CookieName(CookiePart(c[i])))) = 1
          /\ \E k \in 1..Len(coll) : coll[k] = LastOfName(c, i)

(* C7: every domain's collection holds at most one entry per cookie name,   *)
(* whatever sequence of processCookies, addCookiesForDomain and             *)
(* clearSessionCookies produced it.  addCookiesForDomain stores the pieces  *)
(* of its string as they come.                                              *)
C7_OneEntryPerName ==
  \A d \in Domains :
    \A i, j \in 1..Len(Entries(d)) :
      i # j => CookieName(Entries(d)[i]) # CookieName(Entries(d)[j])

(* C2: connect, then an executeMethod whose response sets cookies, then a   *)
(* connect that resolves to the same service host: the new connection's    *)
(* Cookie header is the rendering of the cookies stored for that host.     *)
C2_ReconnectSameHostAppliesCookies ==
  [][ ( /\ lastOp.op = "executeMethod" /\ lastOp.ok
        /\ IsSome(lastOp.cookies) /\ Val(lastOp.cookies) # <<>>
        /\ IsSome(currentDomain)
        /\ lastOp'.op = "connect" /\ lastOp'.ok
        /\ currentDomain' = currentDomain )
      => ( /\ IsSome(sessionCookies'[Val(currentDomain')])
           /\ Val(client').httpCookie =
                Some(Render(Val(sessionCookies'[Val(currentDomain')]))) ) ]_vars

\* a connect to the host already current, whose store holds a cookie that
\* only a response delivers, carries the rendering of that host's cookies
C2_Witness ==
  /\ lastOp.op = "connect" /\ lastOp.ok /\ lastOp.note = "ok"
  /\ IsSome(currentDomain)
  /\ \E k \in 1..Len(Entries(Val(currentDomain))) :
       Entries(Val(currentDomain))[k] = <<"b", "=", "2">>
  /\ CookieHeader = Some(Render(Entries(Val(currentDomain))))

(* C3: a successful connect to a service host b other than the previously  *)
(* active host a, the store holding nothing for b: currentDomain is b,     *)
(* getSessionCookies() is absent, the new connection has no Cookie header  *)
(* and the store (a's collection with it) is unchanged.                    *)
C3_SwitchToFreshDomain ==
  [][ ( /\ lastOp'.op = "connect" /\ lastOp'.ok
        /\ IsSome(currentDomain)
        /\ currentDomain' # currentDomain
        /\ sessionCookies[Val(currentDomain')] = None )
      => ( /\ currentDomain' = Some(Hostname(Val(Val(client').location)))
           /\ GetSessionCookies(ThisNext) = None
           /\ Val(client').httpCookie = None
           /\ sessionCookies' = sessionCookies ) ]_vars

\* a domain switch away from a host that has cookies, to a host without
C3_Witness ==
  /\ lastOp.op = "connect" /\ lastOp.ok /\ lastOp.note = "switch"
  /\ GetSessionCookies(This) = None
  /\ CookieHeader = None
  /\ \E d \in Domains : Some(d) # currentDomain /\ HasCookies(d)

\* a header entry carries at least one value
Carries(o) == IsSome(o) /\ Val(o) # <<>>

\* the Set-Cookie values the raw member of a result offers
RawValues(raw) ==
  IF raw.kind = "object" THEN raw.setCookie
  ELSE IF raw.kind = "string" /\ SetCookieMatch(raw.lines) # <<>>
  THEN Some(SetCookieMatch(raw.lines))
  ELSE None

(* C4: of the sources that carry Set-Cookie values, only the one of highest *)
(* priority is merged into the store of currentDomain: the client's last   *)
(* response headers before the raw response (its header map, else its      *)
(* text); without any value the store is unchanged.                        *)
C4_FirstSourceWins ==
  [][ ( /\ lastOp'.op = "executeMethod" /\ lastOp'.ok
        /\ IsSome(currentDomain)
        /\ IsSome(Val(client').lastSetCookie) => Carries(Val(client').lastSetCookie) )
      => LET hi == Val(client').lastSetCookie
             lo == RawValues(lastOp'.raw)
             d == Val(currentDomain)
         IN  sessionCookies' =
               IF Carries(hi) THEN ProcessCookies(This, Val(hi), d).sessionCookies
               ELSE IF Carries(lo) THEN ProcessCookies(This, Val(lo), d).sessionCookies
               ELSE sessionCookies ]_vars

\* both the client's headers and the raw response carried cookies, of
\* different values, and the store has the header's cookie only
C4_Witness ==
  /\ lastOp.op = "executeMethod" /\ lastOp.ok /\ lastOp.note = "clientHeaders"
  /\ Carries(Val(client).lastSetCookie)
  /\ Carries(RawValues(lastOp.raw))
  /\ \E k \in 1..Len(Entries(Val(currentDomain))) :
       Entries(Val(currentDomain))[k] = <<"b", "=", "1">>
  /\ \A k \in 1..Len(Entries(Val(currentDomain))) :
       Entries(Val(currentDomain))[k] # <<"b", "=", "2">>

(* C5: after every successful executeMethod, also one whose response        *)
(* carried no cookies, the Cookie header is the rendering of the cookies   *)
(* stored for currentDomain (if there are any).  The code applies the      *)
(* cookies only inside processCookies, that is when a source was found.    *)
C5_ExecuteAlwaysReapplies ==
  ( /\ lastOp.op = "executeMethod" /\ lastOp.ok
    /\ IsSome(currentDomain) /\ HasCookies(Val(currentDomain)) )
  => CookieHeader = Some(Render(Entries(Val(currentDomain))))

(* C6: whenever connect fails, no active connection remains.  The code      *)
(* keeps the earlier client when the URL or the construction fails, and    *)
(* the new client when the endpoint cannot be resolved.                    *)
C6_FailedConnectDisconnects ==
  (lastOp.op = "connect" /\ ~lastOp.ok) => client = None

(* C8: applyCookiesForDomain(d) with no cookies stored for d leaves the     *)
(* connection (its Cookie header included), the store and authCookie as    *)
(* they were.                                                              *)
C8_ApplyWithoutCookiesKeepsHeader ==
  [][ ( /\ lastOp'.op = "applyCookiesForDomain"
        /\ lastOp'.arg \in Domains
        /\ ~HasCookies(lastOp'.arg) )
      => ( /\ client' = client
           /\ sessionCookies' = sessionCookies
           /\ authCookie' = authCookie ) ]_vars

\* applyCookiesForDomain was called for a domain without cookies on a
\* connection that has a Cookie header
C8_Witness ==
  /\ lastOp.op = "applyCookiesForDomain"
  /\ lastOp.arg \in Domains
  /\ ~HasCookies(lastOp.arg)
  /\ IsSome(CookieHeader)

(* C9: whenever a connection is active and the store holds a cookie for     *)
(* currentDomain, the connection's Cookie header is the rendering of that  *)
(* collection.                                                             *)
C9_HeaderMatchesStore ==
  (IsSome(client) /\ IsSome(currentDomain) /\ HasCookies(Val(currentDomain)))
  => CookieHeader = Some(Render(Entries(Val(currentDomain))))

(* C10: a successful connect makes the host of the resolved service         *)
(* endpoint the currentDomain, no other operation changes currentDomain,   *)
(* and executeMethod changes the store at currentDomain only: cookies      *)
(* captured after the connect go under the service host, never under the   *)
(* WSDL host.                                                              *)
C10_ServiceDomainIsAuthoritative ==
  [][ /\ (lastOp'.op = "connect" /\ lastOp'.ok)
         => /\ currentDomain' = Some(Hostname(Val(Val(client').location)))
            /\ serviceUrl' = Val(client').location
      /\ lastOp'.op # "connect" => currentDomain' = currentDomain
      /\ lastOp'.op = "executeMethod"
         => \A d \in Domains :
              sessionCookies'[d] # sessionCookies[d] => currentDomain = Some(d) ]_vars

\* cookies captured on a connection whose WSDL host is not its service host
C10_Witness ==
  /\ lastOp.op = "executeMethod" /\ lastOp.ok
  /\ Carries(lastOp.cookies)
  /\ IsSome(wsdlUrl) /\ Val(wsdlUrl).valid
  /\ currentDomain = Some(Hostname(Val(Val(client).location)))
  /\ Hostname(Val(wsdlUrl)) # Val(currentDomain)
  /\ HasCookies(Val(currentDomain))
  /\ ~HasCookies(Hostname(Val(wsdlUrl)))

(* C11: whatever options the caller passes, connect hands the construction  *)
(* of the RPC client a Cookie header equal to the rendering of the cookies *)
(* stored for the WSDL host, and adds no Cookie header when nothing is     *)
(* stored for it.  The code spreads the caller's wsdl_headers over its own *)
(* Cookie entry, so a caller's Cookie replaces the stored cookies.         *)
C11_ConnectPreloadsStoredCookies ==
  (lastOp.op = "connect" /\ IsSome(wsdlUrl) /\ Val(wsdlUrl).valid)
  => LET targetDomain == Hostname(Val(wsdlUrl))
     IN  IF HasCookies(targetDomain)
         THEN lastOp.sent = Some(Render(Entries(targetDomain)))
         ELSE lastOp.sent = lastOp.options

(* C12: rendering never produces the empty string: getSessionCookies()      *)
(* returns absent or a non-empty string, and the connection never carries  *)
(* an empty Cookie header.  addCookiesForDomain stores the single empty    *)
(* piece of a cookie string of white space, which renders as ''.           *)
C12_NeverRendersEmptyString ==
  /\ lastOp.op = "getSessionCookies" => lastOp.result # Some(<<>>)
  /\ CookieHeader # Some(<<>>)

(* C13 as stated: addCookiesForDomain(d, s) with non-empty d and s makes    *)
(* the collection of d the ';'-separated, trimmed parts of s in order and  *)
(* changes neither the active connection, nor currentDomain, nor another   *)
(* domain's collection.  When d is currentDomain and a connection is       *)
(* active the code re-applies the cookies, which changes the connection's  *)
(* Cookie header.                                                          *)
C13_AddLeavesConnectionAlone ==
  [][ (lastOp'.op = "addCookiesForDomain" /\ lastOp'.ok)
      => ( /\ sessionCookies'[lastOp'.arg] =
                Some(MapTrim(SplitAll(lastOp'.text, ";")))
           /\ \A e \in Domains \ {lastOp'.arg} :
                sessionCookies'[e] = sessionCookies[e]
           /\ currentDomain' = currentDomain
           /\ client' = client ) ]_vars

(* C13: addCookiesForDomain(d, s) with non-empty d and s, with or without  *)
(* an active connection, makes the collection of d the ';'-separated,      *)
(* trimmed parts of s in order, replacing what d had, and changes neither  *)
(* currentDomain, nor another domain's collection, nor which connection is *)
(* active; when d is currentDomain and a connection is active, the         *)
(* connection's Cookie header and authCookie become the rendering of the   *)
(* new collection, otherwise the connection and authCookie are unchanged.  *)
C13_AddReplacesCollection ==
  [][ (lastOp'.op = "addCookiesForDomain" /\ lastOp'.ok)
      => LET d == lastOp'.arg
             parts == MapTrim(SplitAll(lastOp'.text, ";"))
         IN  /\ sessionCookies'[d] = Some(parts)
             /\ \A e \in Domains \ {d} : sessionCookies'[e] = sessionCookies[e]
             /\ currentDomain' = currentDomain
             /\ wsdlUrl' = wsdlUrl /\ serviceUrl' = serviceUrl
             /\ IF currentDomain = Some(d) /\ IsSome(client)
                THEN /\ client' = Some(AddHttpHeader(Val(client), Render(parts)))
                     /\ authCookie' = Some(Render(parts))
                ELSE /\ client' = client
                     /\ authCookie' = authCookie ]_vars

\* addCookiesForDomain for the current domain of an active connection
\* replaced a collection that a response had filled, and the connection
\* sends the two trimmed parts of the string
C13_Witness ==
  /\ lastOp.op = "addCookiesForDomain" /\ lastOp.ok
  /\ IsSome(client) /\ currentDomain = Some(lastOp.arg)
  /\ lastOp.text = <<"a", "=", "1", ";", " ", "b", "=", "1">>
  /\ Entries(lastOp.arg) = << <<"a", "=", "1">>, <<"b", "=", "1">> >>
  /\ CookieHeader = Some(<<"a", "=", "1", ";", " ", "b", "=", "1">>)
  /\ \E e \in Domains \ {lastOp.arg} : HasCookies(e)

RECURSIVE JoinedInOrder(_)
\* the entries of coll in collection order with "; " between neighbours
JoinedInOrder(coll) ==
  IF coll = <<>> THEN <<>>
  ELSE IF Len(coll) = 1 THEN coll[1]
  ELSE JoinedInOrder(SubSeq(coll, 1, Len(coll) - 1))
         \o <<";", " ">> \o coll[Len(coll)]

(* C14: getSessionCookies() returns absent whenever currentDomain is unset, *)
(* whatever the store holds for other domains; with a currentDomain it     *)
(* returns the entries stored for it joined by "; " in collection order    *)
(* (absent when currentDomain has no entry).                               *)
C14_GetSessionCookiesOfCurrentDomain ==
  lastOp.op = "getSessionCookies"
  => lastOp.result =
       IF currentDomain = None THEN None
       ELSE IF sessionCookies[Val(currentDomain)] = None THEN None
       ELSE Some(JoinedInOrder(Entries(Val(currentDomain))))

\* getSessionCookies() returned absent on a session that was never
\* connected and had cookies added for a domain
C14_Witness ==
  /\ lastOp.op = "getSessionCookies"
  /\ currentDomain = None /\ client = None /\ wsdlUrl = None
  /\ \E d \in Domains : Len(Entries(d)) = 2
  /\ lastOp.result = None

(* C15: executeMethod without an active connection fails at once with the  *)
(* not-connected error, calls nothing, and leaves the store, currentDomain *)
(* and every other field of the session as they were.                      *)
C15_ExecuteWithoutConnection ==
  [][ (lastOp'.op = "executeMethod" /\ client = None)
      => ( /\ ~lastOp'.ok
           /\ lastOp'.note = "notConnected"
           /\ lastOp'.cookies = None
           /\ ThisNext = This ) ]_vars

\* executeMethod was refused on a session that was disconnected while it
\* had a currentDomain with stored cookies
C15_Witness ==
  /\ lastOp.op = "executeMethod" /\ lastOp.note = "notConnected" /\ ~lastOp.ok
  /\ client = None
  /\ IsSome(currentDomain) /\ HasCookies(Val(currentDomain))

(* C16: when the RPC call of executeMethod fails, the error reaches the     *)
(* caller and the cookie store and the connection's Cookie header are as   *)
(* before the call.                                                        *)
C16_RpcErrorKeepsCookieState ==
  [][ (lastOp'.op = "executeMethod" /\ lastOp'.note = "rpcError")
      => ( /\ ~lastOp'.ok
           /\ sessionCookies' = sessionCookies
           /\ IsSome(client') /\ Val(client').httpCookie = Val(client).httpCookie
           /\ authCookie' = authCookie
           /\ currentDomain' = currentDomain ) ]_vars

\* a failed call whose response carried Set-Cookie headers left the store of
\* currentDomain empty
C16_Witness ==
  /\ lastOp.op = "executeMethod" /\ lastOp.note = "rpcError" /\ ~lastOp.ok
  /\ IsSome(currentDomain) /\ ~HasCookies(Val(currentDomain))
  /\ Carries(Val(client).lastSetCookie)
  /\ CookieHeader = None

(* C17: when the call succeeded and no extraction source carries a cookie,  *)
(* executeMethod returns the result of the call without an error and the   *)
(* cookie store is unchanged.                                              *)
C17_NoCookiesIsNoError ==
  [][ ( /\ lastOp'.op = "executeMethod"
        /\ lastOp'.note \notin {"notConnected", "rpcError"}
        /\ ~Carries(Val(client').lastSetCookie)
        /\ ~Carries(RawValues(lastOp'.raw)) )
      => ( /\ lastOp'.ok
           /\ sessionCookies' = sessionCookies ) ]_vars

\* a successful call whose response text has no Set-Cookie line, on a
\* session that holds cookies for currentDomain
C17_Witness ==
  /\ lastOp.op = "executeMethod" /\ lastOp.ok /\ lastOp.note = "none"
  /\ lastOp.raw.kind = "string" /\ lastOp.cookies = None
  /\ IsSome(currentDomain) /\ HasCookies(Val(currentDomain))

(* C18: addCookiesForDomain with an empty domain or an empty cookie string  *)
(* reports failure and leaves the store and the connection's Cookie header *)
(* (the whole session) unchanged.                                          *)
C18_AddRejectsEmptyInput ==
  [][ ( /\ lastOp'.op = "addCookiesForDomain"
        /\ (lastOp'.arg = "" \/ lastOp'.text = <<>>) )
      => ( /\ ~lastOp'.ok
           /\ sessionCookies' = sessionCookies
           /\ client' = client
           /\ ThisNext = This ) ]_vars

\* addCookiesForDomain was refused for the empty cookie string and the
\* current domain of a connection that sends stored cookies
C18_Witness ==
  /\ lastOp.op = "addCookiesForDomain" /\ ~lastOp.ok
  /\ lastOp.text = <<>> /\ currentDomain = Some(lastOp.arg)
  /\ HasCookies(lastOp.arg)
  /\ IsSome(CookieHeader)

\* the last operation ended with an exception: of the operations only
\* processCookies and executeMethod have a path that throws, and for them ok
\* tells whether they returned
Raised == lastOp.op \in {"processCookies", "executeMethod"} /\ ~lastOp.ok

(* C19: every operation of the cookie store (lookup, merge, delete, list,   *)
(* bulk replace, render) completes without raising for every domain key,   *)
(* a domain without entry and an empty batch included.  processCookies     *)
(* with an empty batch for a domain without entry stores nothing and then  *)
(* reads .join of the missing entry in its closing report.                 *)
C19_StoreOperationsNeverRaise ==
  lastOp.op \in {"processCookies", "clearSessionCookies", "listAllCookies",
                 "addCookiesForDomain", "getSessionCookies"}
  => ~Raised

(* C20: a domain's entry leaves the store only through clearSessionCookies  *)
(* for that domain, its content changes only through the cookie extraction *)
(* of executeMethod or through addCookiesForDomain; connect (successful or *)
(* failed), the wrapper's disconnect, authenticate and the read operations *)
(* leave the whole store unchanged.                                        *)
C20_StoreChangesOnlyByStoreOperations ==
  [][ /\ \A d \in Domains :
           /\ (IsSome(sessionCookies[d]) /\ sessionCookies'[d] = None)
              => /\ lastOp'.op = "clearSessionCookies"
                 /\ \/ lastOp'.arg = d
                    \/ lastOp'.arg = "" /\ currentDomain = Some(d)
           /\ (IsSome(sessionCookies'[d]) /\ sessionCookies'[d] # sessionCookies[d])
              => lastOp'.op \in {"executeMethod", "addCookiesForDomain"}
      /\ lastOp'.op \in {"connect", "disconnect", "authenticate",
                         "getSessionCookies", "listAllCookies"}
         => sessionCookies' = sessionCookies ]_vars

\* the wrapper's disconnect left the cookies of the domain that stays
\* current in the store
C20_Witness ==
  /\ lastOp.op = "disconnect"
  /\ client = None
  /\ IsSome(currentDomain) /\ HasCookies(Val(currentDomain))

(* C21: every key of the cookie store is a lower-case host name, so that a  *)
(* key written by addCookiesForDomain is the key connect looks up for a    *)
(* URL on that host.  addCookiesForDomain uses its domain argument as the  *)
(* key without normalising it.                                             *)
C21_KeysAreLowercaseHosts ==
  \A k \in Keys : IsSome(sessionCookies[k]) => Lower(k) = k

\* the entries of collection coll as a set
EntrySet(coll) == { coll[i] : i \in 1..Len(coll) }

(* C22: merging the identical name=value cookie into a domain twice yields  *)
(* the same set of entries as merging it once, with one entry of that name *)
(* and value, which is the last entry after each of the two merges.        *)
C22_MergeTwiceIsMergeOnce ==
  \A d \in Domains, c \in RawCookieStrings :
    LET once == ProcessCookies(This, <<c>>, d)
        twice == ProcessCookies(once, <<c>>, d)
        e1 == Val(once.sessionCookies[d])
        e2 == Val(twice.sessionCookies[d])
        n == CookieName(CookiePart(c))
    IN  /\ EntrySet(e2) = EntrySet(e1) /\ Len(e2) = Len(e1)
        /\ Cardinality(Named(e1, n)) = 1 /\ Cardinality(Named(e2, n)) = 1
        /\ e1[Len(e1)] = CookiePart(c)
        /\ e2[Len(e2)] = CookiePart(c)

\* a single cookie was merged into a collection that keeps another entry,
\* and a second merge of it is about to find it stored
C22_Witness ==
  /\ lastOp.op = "processCookies" /\ lastOp.ok
  /\ lastOp.cookies = Some(<< <<"a", "=", "2">> >>)
  /\ Entries(lastOp.arg) = << <<"b", "=", "1">>, <<"a", "=", "2">> >>

(* C28: merging a single cookie n=v into a domain's collection keeps every  *)
(* entry of another name in its previous relative order, removes the prior *)
(* entry named n, and places n=v as the last entry.                        *)
C28_SingleMergeAppendsAtEnd ==
  [][ ( /\ lastOp'.op = "processCookies" /\ lastOp'.ok
        /\ Len(Val(lastOp'.cookies)) = 1 )
      => LET c == CookiePart(Val(lastOp'.cookies)[1])
             n == CookieName(c)
             d == lastOp'.arg
             others == SelectSeq(Entries(d), LAMBDA e : CookieName(e) # n)
         IN  /\ sessionCookies'[d] = Some(others \o <<c>>)
             /\ \A e \in Keys \ {d} : sessionCookies'[e] = sessionCookies[e] ]_vars

\* a cookie with an attribute was merged behind the entry of another name
C28_Witness ==
  /\ lastOp.op = "processCookies" /\ lastOp.ok
  /\ lastOp.cookies = Some(<< <<"a", "=", "1", ";", "p">> >>)
  /\ Entries(lastOp.arg) = << <<"b", "=", "1">>, <<"a", "=", "1">> >>

(* C23: clearSessionCookies(d) removes exactly the entry of d, of           *)
(* currentDomain when d is omitted, and nothing when neither exists; it is *)
(* a no-op when that domain has no entry, and it changes no other domain's *)
(* collection, nor currentDomain, nor the active connection.               *)
C23_ClearRemovesOneEntry ==
  [][ lastOp'.op = "clearSessionCookies"
      => LET target == IF lastOp'.arg # "" THEN Some(lastOp'.arg) ELSE currentDomain
         IN  /\ \A k \in Keys :
                  sessionCookies'[k] =
                    IF target = Some(k) THEN None ELSE sessionCookies[k]
             /\ (target = None \/ sessionCookies[Val(target)] = None)
                => ThisNext = This
             /\ currentDomain' = currentDomain
             /\ client' = client
             /\ wsdlUrl' = wsdlUrl /\ serviceUrl' = serviceUrl
             /\ authCookie' = authCookie ]_vars

\* clearSessionCookies() without argument removed the cookies of the
\* current domain of a connection that sends them, and kept the other
\* domain's
C23_Witness ==
  /\ lastOp.op = "clearSessionCookies" /\ lastOp.arg = ""
  /\ IsSome(currentDomain) /\ sessionCookies[Val(currentDomain)] = None
  /\ IsSome(CookieHeader)
  /\ \E e \in Domains : HasCookies(e)

(* C24: every failing call of the wrapper's connect, authenticate and       *)
(* executeMethod returns success=false together with an error message.     *)
(* The wrapper's connect and authenticate pass on the false of the session *)
(* without any error field.                                                *)
C24_FailuresCarryAnError ==
  (lastOp.op \in {"connect", "authenticate", "executeMethod"} /\ ~lastOp.ok)
  => (~WrapperResponse.success /\ IsSome(WrapperResponse.error))

(* C29: a source ends the extraction only if it yields at least one cookie  *)
(* value: when the client's last response headers hold an empty set-cookie *)
(* list, the raw response is still consulted and its cookies are merged.   *)
(* The code takes the empty list for a find (an array is truthy) and skips *)
(* the lower sources.                                                      *)
C29_EmptySourceDoesNotEndSearch ==
  [][ ( /\ lastOp'.op = "executeMethod" /\ lastOp'.ok
        /\ IsSome(currentDomain)
        /\ Val(client').lastSetCookie = Some(<<>>)
        /\ Carries(RawValues(lastOp'.raw)) )
      => sessionCookies' =
           ProcessCookies(This, Val(RawValues(lastOp'.raw)),
                          Val(currentDomain)).sessionCookies ]_vars

(* C30: whenever a connection is active, currentDomain is the host of that  *)
(* connection's resolved service endpoint, and wsdlUrl is the URL the      *)
(* connection was constructed from: wsdlUrl changes only in a step that    *)
(* installs the client constructed from it.  connect assigns wsdlUrl       *)
(* before anything can fail and installs the client before it resolves the *)
(* endpoint.                                                               *)
C30_ContextDescribesConnection ==
  [][ IsSome(client')
      => ( /\ IsSome(Val(client').location)
           /\ currentDomain' = Some(Hostname(Val(Val(client').location)))
           /\ wsdlUrl' # wsdlUrl
              => (lastOp'.op = "connect"
                  /\ lastOp'.note \in {"ok", "switch", "resolve"}) ) ]_vars

\* the name=value pair of a Set-Cookie line: what precedes its first ";"
Stripped(line) ==
  CHOOSE p \in {SubSeq(line, 1, n) : n \in 0..Len(line)} :
    /\ \A i \in 1..Len(p) : p[i] # ";"
    /\ (Len(p) < Len(line) => line[Len(p) + 1] = ";")

\* the last step was a run of simple-soap with a cookie file that reached
\* its end
RanToTheEnd == run.ran /\ run.in.cookies /\ run.exit = Some(0)

C26_FailedRunKeepsCookieFile ==
  [][ ( /\ run'.ran
        /\ \/ ~run'.in.paramsValid
           \/ ~run'.in.headersValid
           \/ ~run'.in.wsdlLoads
           \/ ~run'.in.methodExists
           \/ ~run'.in.callSucceeds )
      => (run'.exit = Some(1) /\ cookieFile' = cookieFile) ]_vars

\* a run with a cookie file whose call failed although the response carried
\* Set-Cookie lines: exit code 1, and there is still no cookie file
C26_Witness ==
  /\ run.ran /\ run.in.cookies
  /\ run.in.paramsValid /\ run.in.headersValid
  /\ run.in.wsdlLoads /\ run.in.methodExists
  /\ ~run.in.callSucceeds
  /\ IsSome(run.in.setCookie)
  /\ run.exit = Some(1)
  /\ cookieFile = None

(* C27: after any sequence of saveProfile, getProfile, updateProfile,      *)
(* deleteProfile and importProfiles every stored profile carries a WSDL    *)
(* URL, a creation timestamp and a last-used timestamp.  importProfiles    *)
(* stores each imported object as it comes and adds importedAt only.       *)
C27_ProfilesAreComplete ==
  \A n \in ProfileNames :
    IsSome(profiles[n])
    => ( /\ IsSome(Val(profiles[n]).wsdlUrl)
         /\ IsSome(Val(profiles[n]).createdAt)
         /\ IsSome(Val(profiles[n]).lastUsed) )

(* C31: applyCookiesForDomain(d) on an active connection, the store holding *)
(* at least one entry for d, leaves the connection with the one Cookie     *)
(* header whose value is the rendering of d's collection, whatever header  *)
(* it had before, and leaves the store alone; without a connection or      *)
(* without a domain the session is as it was.                              *)
C31_ApplySetsTheOneCookieHeader ==
  [][ lastOp'.op = "applyCookiesForDomain"
      => LET d == lastOp'.arg
         IN  IF client = None \/ d = ""
             THEN ThisNext = This
             ELSE HasCookies(d)
                  => ( /\ IsSome(client')
                       /\ Val(client').httpCookie = Some(JoinedInOrder(Entries(d)))
                       /\ sessionCookies' = sessionCookies ) ]_vars

\* applyCookiesForDomain(d) for a domain other than the current one, whose
\* cookies differ from those of the current domain: the header of the
\* connection is the rendering of d's collection
C31_Witness ==
  /\ lastOp.op = "applyCookiesForDomain" /\ lastOp.note = "applied"
  /\ IsSome(currentDomain) /\ currentDomain # Some(lastOp.arg)
  /\ HasCookies(Val(currentDomain))
  /\ Entries(lastOp.arg) # Entries(Val(currentDomain))
  /\ CookieHeader = Some(JoinedInOrder(Entries(lastOp.arg)))

(* C32: an addCookiesForDomain(d, s) that is accepted sets the Cookie header *)
(* of the active connection exactly when d is the current domain and a     *)
(* connection is active, and then to the rendering of the collection it    *)
(* stored for d; for any other d, and for a call that is rejected, the     *)
(* connection is as it was.                                                *)
C32_AddTouchesHeaderOfCurrentDomainOnly ==
  [][ lastOp'.op = "addCookiesForDomain"
      => IF lastOp'.ok /\ currentDomain = Some(lastOp'.arg) /\ IsSome(client)
         THEN /\ IsSome(client')
              /\ Val(client').httpCookie =
                   Some(JoinedInOrder(Val(sessionCookies'[lastOp'.arg])))
         ELSE client' = client ]_vars

\* cookies were added for the current domain of a connection that has a
\* response behind it: its Cookie header is the rendering of the two
\* entries the call stored
C32_Witness ==
  /\ lastOp.op = "addCookiesForDomain" /\ lastOp.ok
  /\ currentDomain = Some(lastOp.arg)
  /\ IsSome(client) /\ IsSome(Val(client).lastSetCookie)
  /\ Len(Entries(lastOp.arg)) = 2
  /\ CookieHeader = Some(JoinedInOrder(Entries(lastOp.arg)))

(* C33: a successful connect reports a domain transition exactly when a     *)
(* currentDomain was set before the call and differs from the host of the  *)
(* service endpoint the call resolved; a connect that reports a transition *)
(* returns true and has made the resolved host the current domain.         *)
C33_TransitionReport ==
  [][ lastOp'.op = "connect"
      => /\ lastOp'.ok
            => /\ IsSome(client') /\ IsSome(Val(client').location)
               /\ (lastOp'.note = "switch")
                    <=> ( /\ IsSome(currentDomain)
                          /\ currentDomain #
                               Some(Hostname(Val(Val(client').location))) )
         /\ lastOp'.note = "switch"
            => /\ lastOp'.ok
               /\ currentDomain' = Some(Hostname(Val(Val(client').location))) ]_vars

\* a connect that reported a transition and is connected to the new domain,
\* the store still holding the cookies of the other domain
C33_Witness ==
  /\ lastOp.op = "connect" /\ lastOp.ok /\ lastOp.note = "switch"
  /\ IsSome(currentDomain)
  /\ \E e \in Domains \ {Val(currentDomain)} : HasCookies(e)

\* the text of s before its first character ch (all of s without ch)
Before(s, ch) ==
  CHOOSE p \in {SubSeq(s, 1, n) : n \in 0..Len(s)} :
    /\ \A i \in 1..Len(p) : p[i] # ch
    /\ (Len(p) < Len(s) => s[Len(p) + 1] = ch)

\* entry e is a cookie of name n: it begins with n followed by '='
IsCookieNamed(e, n) ==
  /\ Len(e) > Len(n)
  /\ \A i \in 1..Len(n) : e[i] = n[i]
  /\ e[Len(n) + 1] = "="

\* the entries of coll that are no cookie of name n, in their order
RECURSIVE Others(_, _)
Others(coll, n) ==
  IF coll = <<>> THEN <<>>
  ELSE IF IsCookieNamed(coll[Len(coll)], n)
       THEN Others(SubSeq(coll, 1, Len(coll) - 1), n)
       ELSE Others(SubSeq(coll, 1, Len(coll) - 1), n) \o <<coll[Len(coll)]>>

(* C34: processCookies stores of a raw cookie string the text before its    *)
(* first ';' and replaces the entries that are cookies of its name, the    *)
(* text before its first '=': after a call with one raw string the         *)
(* collection is the former entries that are no cookie of that name,       *)
(* followed by the stored text; after any call every entry that is new is  *)
(* the text before the first ';' of a raw string of the batch.             *)
C34_StoredTextAndName ==
  [][ lastOp'.op = "processCookies"
      => LET d == lastOp'.arg
             c == Val(lastOp'.cookies)
             new == Val(sessionCookies'[d])
         IN  /\ IsSome(sessionCookies'[d])
             /\ \A i \in 1..Len(new) :
                  \/ \E j \in 1..Len(Entries(d)) : Entries(d)[j] = new[i]
                  \/ \E j \in 1..Len(c) : new[i] = Before(c[j], ";")
             /\ Len(c) = 1
                => new = Others(Entries(d), Before(Before(c[1], ";"), "="))
                           \o <<Before(c[1], ";")>> ]_vars

\* the cookie a=x=y with attributes was merged into a collection that held
\* ab=1: ab=1 is kept, the value x=y is whole and the attributes are gone
C34_Witness ==
  /\ lastOp.op = "processCookies"
  /\ lastOp.cookies = Some(<< <<"a", "=", "x", "=", "y", ";", "p", "=", "q">> >>)
  /\ Entries(lastOp.arg) = << <<"a", "b", "=", "1">>, <<"a", "=", "x", "=", "y">> >>

(* C35: when a connect to another domain has completed while an            *)
(* executeMethod call was awaiting its response, the cookies of the        *)
(* response are merged under the domain the call was sent to: the          *)
(* collections of the other domains are as they were, and the domain of    *)
(* the call has an entry when the response carried a cookie.  The code     *)
(* reads this.client and this.currentDomain when the response arrives, so  *)
(* the cookies go to the newly connected domain.                           *)
C35_LateResponseGoesToItsDomain ==
  [][ ( /\ call.inFlight /\ ~call'.inFlight
        /\ call.overtaken
        /\ IsSome(currentDomain) /\ currentDomain # Some(call.sentTo)
        /\ lastOp'.ok )
      => /\ \A e \in Domains \ {call.sentTo} :
              sessionCookies'[e] = sessionCookies[e]
         /\ ( \/ Carries(Val(call'.headers))
              \/ Carries(RawValues(call'.raw)) )
            => Carries(sessionCookies'[call.sentTo]) ]_vars

\* 2 to the power k, by doubling
RECURSIVE Doubled(_)
Doubled(k) == IF k = 0 THEN 1 ELSE 2 * Doubled(k - 1)

\* the connectWithRetry call has returned with r.result
Returned(r) == r.pos = "done" /\ IsSome(r.result)

\* what holds of a connectWithRetry call at every await and at its return
RetryAsSpecified ==
  /\ retry.attempts <= retry.maxRetries
  /\ retry.pos # "done" => retry.result = None
  /\ (Returned(retry) /\ Val(retry.result).success)
     => /\ lastOp.op = "connect" /\ lastOp.ok
        /\ retry.attempts = Len(retry.waits) + 1
  /\ (Returned(retry) /\ ~Val(retry.result).success)
     => /\ retry.attempts = retry.maxRetries
        /\ retry.attempts > 0 => (lastOp.op = "connect" /\ ~lastOp.ok)
  /\ Len(retry.waits) =
       IF retry.pos = "done" /\ retry.attempts > 0
       THEN retry.attempts - 1 ELSE retry.attempts
  /\ \A k \in 1..Len(retry.waits) : retry.waits[k] = Doubled(k - 1)

(* C36: connectWithRetry(url, options, maxRetries) makes at most maxRetries *)
(* connect attempts; it returns the result of the first attempt that       *)
(* succeeds, which is then the last attempt made; after the failed attempt *)
(* i (counted from 0) it waits 2^i seconds if and only if another attempt  *)
(* follows; it returns success=false when maxRetries attempts have failed; *)
(* and every call returns.                                                 *)
C36_RetryAsSpecifiedAndReturns ==
  /\ []RetryAsSpecified
  /\ (retry.pos # "done") ~> (retry.pos = "done")

\* a call with maxRetries = 3 returned success from its third attempt,
\* after back-offs of 1 and 2 seconds
C36_Witness ==
  /\ Returned(retry) /\ Val(retry.result).success
  /\ retry.maxRetries = 3 /\ retry.attempts = 3
  /\ retry.waits = <<1, 2>>

(* C37: when every attempt of connectWithRetry has failed, the error of the *)
(* response carries the error of the last failed attempt, a defined value. *)
(* The response of a failed connect has no error member (claim C24), so    *)
(* lastError is undefined.                                                 *)
C37_FailureCarriesLastError ==
  (Returned(retry) /\ ~Val(retry.result).success /\ retry.attempts > 0)
  => IsSome(Val(Val(retry.result).error).lastError)

(* C38: executeWithValidation(name, params) returns success=false with the  *)
(* method-not-found error, the RPC call not being made, whenever no        *)
(* service is connected or name is no method of the connected service.     *)
(* The validation tests the success member of the wrapper's getMethodInfo, *)
(* which is true also when no method was found, so it refuses nothing.     *)
C38_UnknownMethodIsRefused ==
  ( /\ lastOp.op = "executeWithValidation"
    /\ (client = None \/ GetMethodInfo(This, lastOp.arg) = None) )
  => (~lastOp.ok /\ lastOp.note = "notFound")

\* string s holds the text t
Holds(s, t) ==
  \E k \in 0..(Len(s) - Len(t)) : SubSeq(s, k + 1, k + Len(t)) = t

\* the cookie a successful authenticate(user, password, 'cookie') obtains in
\* the explored calls; no other operation produces a cookie of this name
AuthCookieText == <<"s", "=", "7">>

\* the Cookie header of the connection holds the cookie of authenticate
SendsAuthCookie(c) ==
  IsSome(c) /\ IsSome(Val(c).httpCookie) /\ Holds(Val(Val(c).httpCookie), AuthCookieText)

(* C39: the cookie obtained by a successful authenticate(user, password,    *)
(* 'cookie') stays in the Cookie header of the connection through every    *)
(* later call on that connection: a step other than connect and disconnect *)
(* that starts with the cookie in the header ends with it in the header.   *)
(* applyCookiesForDomain replaces the header by the rendering of the       *)
(* domain's collection, of which the cookie of authenticate is no part.    *)
C39_AuthCookieStaysInHeader ==
  [][ (SendsAuthCookie(client) /\ lastOp'.op \notin {"connect", "disconnect"})
      => SendsAuthCookie(client') ]_vars

(* C40: the wrapper's disconnect() leaves no connection: getConnectionStatus *)
(* reports connected=false and authenticated=false, and an executeMethod   *)
(* of the disconnected session fails as not connected and changes nothing; *)
(* currentDomain and the cookie store are as before the disconnect, so     *)
(* getSessionCookies() returns what it returned before; and a connect of   *)
(* the disconnected session that resolves to the host that is still the    *)
(* current domain puts the cookies stored for it on the new connection.    *)
C40_DisconnectKeepsDomainAndStore ==
  [][ /\ lastOp'.op = "disconnect"
         => /\ ~GetConnectionStatus(ThisNext).connected
            /\ ~GetConnectionStatus(ThisNext).authenticated
            /\ currentDomain' = currentDomain
            /\ sessionCookies' = sessionCookies
            /\ GetConnectionStatus(ThisNext).sessionCookies
                 = GetConnectionStatus(This).sessionCookies
      /\ (client = None /\ IsSome(currentDomain) /\ lastOp'.op = "executeMethod")
         => (~lastOp'.ok /\ lastOp'.note = "notConnected" /\ ThisNext = This)
      /\ ( /\ client = None /\ IsSome(currentDomain)
           /\ lastOp'.op = "connect" /\ lastOp'.ok
           /\ currentDomain' = currentDomain
           /\ HasCookies(Val(currentDomain)) )
         => /\ IsSome(client')
            /\ Val(client').httpCookie =
                 Some(JoinedInOrder(Entries(Val(currentDomain)))) ]_vars

\* a session that was authenticated and holds cookies for its domain has
\* been disconnected: no client, no authCookie, the domain is still
\* current and getSessionCookies() returns its cookies
C40_Witness ==
  /\ lastOp.op = "disconnect"
  /\ ~GetConnectionStatus(This).connected
  /\ IsSome(currentDomain)
  /\ Carries(GetConnectionStatus(This).sessionCookies)
  /\ wsdlUrl = None /\ serviceUrl = None

====
